---- MODULE Spec2Model ----
(***************************************************************************)
(* Convergence: multi-agent code review.  A model of the aggregation       *)
(* pipeline: the task dispatcher (app/agents/runner.py), the merge engine   *)
(* and the consensus adjuster (app/orchestrator/convergence.py) and the     *)
(* orchestration entry point (app/orchestrator/orchestrator.py).            *)
(*                                                                         *)
(* Python dicts are records whose DOMAIN is the set of keys present, so    *)
(* d.get(k, default) is Get(d, k, default).  Text is a sequence of tokens  *)
(* (one-character strings for paths and location keys), so formatting and   *)
(* concatenation are computed, not assumed injective.                       *)
(***************************************************************************)
EXTENDS Integers, Sequences, FiniteSets, TLC

VARIABLES
    \* ---- the pure convergence functions, applied to drawn inputs ----
    phase,              \* "input" | "merged" | "adjusted"
    findings_by_agent,  \* the argument of merge_overlapping_findings
    merged_findings,    \* its return value
    cross_refs,         \* the judgments handed to apply_consensus_to_findings
    adjusted_findings,  \* its return value
    merged_again,       \* what a second merge of the same mapping returns
    norm,               \* one task's findings before and after the normalisation
    round,              \* the run_cross_reference_round coroutine
    sessions,           \* the review_sessions collection: a list of documents
    creator,            \* per webhook delivery: the create_session_from_payload coroutine
    \* ---- the pipeline over one persisted session ----
    session,            \* the review_sessions document
    agent_findings,     \* the agent_findings collection of the session: a list of documents
    run,                \* per invocation: the coroutine's position and locals
    task                \* per invocation and agent_type: the run_agent coroutine

vars == <<phase, findings_by_agent, merged_findings, cross_refs,
          adjusted_findings, merged_again, norm, round, sessions, creator,
          session, agent_findings, run, task>>

auxVars == <<norm, round, sessions, creator>>

pureVars == <<phase, findings_by_agent, merged_findings, cross_refs,
              adjusted_findings, merged_again, norm, round, sessions, creator>>

pipeVars == <<session, agent_findings, run, task>>

-----------------------------------------------------------------------------
(* Bounds of the model *)

\* the most findings that the drawn merge input holds over all task kinds
MaxFindings == 3

\* the most judgments in a drawn cross-reference list
MaxCrossRefs == 4

\* the most invocations (orchestrate_review, analyze_session) of one session
MaxRuns == 2

\* the most webhook deliveries that create_session_from_payload serves
MaxDeliveries == 3

-----------------------------------------------------------------------------
(* Generic helpers *)

\* dict.get(k, default)
Get(d, k, default) == IF k \in DOMAIN d THEN d[k] ELSE default

\* d[k] = v on a copy of d
Put(d, k, v) == [x \in (DOMAIN d) \cup {k} |-> IF x = k THEN v ELSE d[x]]

Min(a, b) == IF a <= b THEN a ELSE b

RECURSIVE SeqsOfLen(_, _)
SeqsOfLen(S, n) ==
    IF n = 0 THEN {<<>>}
    ELSE {Append(s, x) : s \in SeqsOfLen(S, n - 1), x \in S}

SeqsUpTo(S, n) == UNION {SeqsOfLen(S, i) : i \in 0..n}

Range(s) == {s[i] : i \in 1..Len(s)}

\* str(n) of an int, as its characters
RECURSIVE Digits(_)
Digits(n) ==
    LET d == <<"0", "1", "2", "3", "4", "5", "6", "7", "8", "9">>[(n % 10) + 1]
    IN IF n < 10 THEN <<d>> ELSE Append(Digits(n \div 10), d)

IntToStr(n) == IF n < 0 THEN <<"-">> \o Digits(-n) ELSE Digits(n)

\* ord(c) for the characters that occur
CharCode(c) ==
    CASE c = "-" -> 45 [] c = "0" -> 48 [] c = "1" -> 49 [] c = "2" -> 50
      [] c = "3" -> 51 [] c = "4" -> 52 [] c = "5" -> 53 [] c = "6" -> 54
      [] c = "7" -> 55 [] c = "8" -> 56 [] c = "9" -> 57 [] c = ":" -> 58
      [] c = "a" -> 97 [] c = "b" -> 98 [] c = "k" -> 107 [] c = "n" -> 110
      [] c = "o" -> 111 [] c = "u" -> 117 [] c = "w" -> 119

\* Python's str < str: lexicographic by code point, a proper prefix first
RECURSIVE StrLess(_, _)
StrLess(s, t) ==
    IF t = <<>> THEN FALSE
    ELSE IF s = <<>> THEN TRUE
    ELSE IF CharCode(Head(s)) # CharCode(Head(t))
         THEN CharCode(Head(s)) < CharCode(Head(t))
         ELSE StrLess(Tail(s), Tail(t))

-----------------------------------------------------------------------------
(* Task kinds *)

\* AGENT_CLASSES, in its insertion order
AGENT_CLASSES == <<"security", "performance", "testing", "architecture",
                   "documentation">>

\* the task kinds the model dispatches, in AGENT_CLASSES order
AgentTypes == <<"security", "performance">>

\* list.sort() of task-kind names: the known names in str order
SortedAgentNames == <<"architecture", "documentation", "performance",
                      "security", "testing">>

SortKinds(S) == SelectSeq(SortedAgentNames, LAMBDA k : k \in S)

\* agent_type[:3]
Prefix3(agent_type) ==
    CASE agent_type = "security" -> "sec"
      [] agent_type = "performance" -> "per"
      [] agent_type = "testing" -> "tes"
      [] agent_type = "architecture" -> "arc"
      [] agent_type = "documentation" -> "doc"

\* f"{agent_type[:3]}-{i+1:03d}" for the 0-based position i, as tokens
DefaultId(agent_type, i) ==
    LET n == IntToStr(i + 1)
        pad == IF Len(n) = 1 THEN <<"0", "0">> ELSE IF Len(n) = 2 THEN <<"0">> ELSE <<>>
    IN <<Prefix3(agent_type), "-">> \o pad \o n


-----------------------------------------------------------------------------
(* The merge engine: app/orchestrator/convergence.py *)

unknown == <<"u", "n", "k", "n", "o", "w", "n">>

\* a key that leaves the end line out: f"{file_path}:{line_start}"
location_key_start_only(finding) ==
    LET file_path == Get(finding, "file_path", unknown)
        line_start == Get(finding, "line_start", 0)
    IN file_path \o <<":">> \o IntToStr(line_start)

\* f"{file_path}:{line_start}-{line_end}"
location_key(finding) ==
    LET file_path == Get(finding, "file_path", unknown)
        line_start == Get(finding, "line_start", 0)
        line_end == Get(finding, "line_end", line_start)
    IN file_path \o <<":">> \o IntToStr(line_start) \o <<"-">> \o IntToStr(line_end)

findings_overlap(f1, f2) ==
    IF Get(f1, "file_path", <<>>) # Get(f2, "file_path", <<>>) THEN FALSE
    ELSE LET s1 == Get(f1, "line_start", 0)
             e1 == Get(f1, "line_end", Get(f1, "line_start", 0))
             s2 == Get(f2, "line_start", 0)
             e2 == Get(f2, "line_end", Get(f2, "line_start", 0))
         IN ~(e1 < s2 \/ e2 < s1)

\* the copies of one task kind's findings, each tagged with its kind
TagSource(entry) ==
    [i \in 1..Len(entry.findings) |->
        Put(entry.findings[i], "_source", entry.agent_type)]

\* all_findings: findings_by_agent.items() flattened in dict order
RECURSIVE Flatten(_)
Flatten(fba) ==
    IF fba = <<>> THEN <<>> ELSE TagSource(Head(fba)) \o Flatten(Tail(fba))

\* the keys of `grouped`, in the order the defaultdict first saw them
RECURSIVE GroupKeys(_)
GroupKeys(all) ==
    IF all = <<>> THEN <<>>
    ELSE LET k == location_key(Head(all))
         IN <<k>> \o SelectSeq(GroupKeys(Tail(all)), LAMBDA x : x # k)

\* grouped[key]
Grouped(all, key) == SelectSeq(all, LAMBDA f : location_key(f) = key)

\* a max that keeps the last member among equals
BaseIndexLastMax(findings) ==
    CHOOSE i \in 1..Len(findings) :
        /\ \A j \in 1..Len(findings) :
              Get(findings[j], "severity", 0) <= Get(findings[i], "severity", 0)
        /\ \A j \in (i + 1)..Len(findings) :
              Get(findings[j], "severity", 0) < Get(findings[i], "severity", 0)

\* max(findings, key=severity): the first member with the highest severity
BaseIndex(findings) ==
    CHOOSE i \in 1..Len(findings) :
        /\ \A j \in 1..Len(findings) :
              Get(findings[j], "severity", 0) <= Get(findings[i], "severity", 0)
        /\ \A j \in 1..(i - 1) :
              Get(findings[j], "severity", 0) < Get(findings[i], "severity", 0)

\* the boost without its cap
BoostUnclamped(original_severity) == original_severity + 1

\* min(original_severity + 1, 5)
MergeBoost(original_severity) == Min(original_severity + 1, 5)

merge_finding_group(findings) ==
    LET base == findings[BaseIndex(findings)]
        sources == SortKinds({Get(findings[i], "_source", "unknown") :
                                  i \in 1..Len(findings)})
        original_severity == Get(base, "severity", 3)
        boosted_severity == MergeBoost(original_severity)
    IN ("id" :> (<<"merged-">> \o Get(base, "id", <<"unknown">>)))
       @@ ("file_path" :> Get(base, "file_path", <<>>))
       @@ ("line_start" :> Get(base, "line_start", 0))
       @@ ("line_end" :> Get(base, "line_end", Get(base, "line_start", 0)))
       @@ ("severity" :> boosted_severity)
       @@ ("original_severity" :> original_severity)
       @@ ("_sources" :> sources)
       @@ ("_merged" :> TRUE)
       @@ ("_finding_count" :> Len(findings))

\* the sort key (-severity, file_path, line_start), compared as Python tuples
SortLess(f, g) ==
    LET sf == -Get(f, "severity", 0)
        sg == -Get(g, "severity", 0)
        pf == Get(f, "file_path", <<>>)
        pg == Get(g, "file_path", <<>>)
    IN \/ sf < sg
       \/ sf = sg /\ StrLess(pf, pg)
       \/ sf = sg /\ pf = pg /\ Get(f, "line_start", 0) < Get(g, "line_start", 0)

\* x placed before the first element that does not sort before it
InsertBeforeEqual(sorted, x) ==
    LET later == {i \in 1..Len(sorted) : ~SortLess(sorted[i], x)}
        at == IF later = {} THEN Len(sorted) + 1
              ELSE CHOOSE i \in later : \A j \in later : i <= j
    IN SubSeq(sorted, 1, at - 1) \o <<x>> \o SubSeq(sorted, at, Len(sorted))

\* x placed before the first element that sorts after it
InsertSorted(sorted, x) ==
    LET later == {i \in 1..Len(sorted) : SortLess(x, sorted[i])}
        at == IF later = {} THEN Len(sorted) + 1
              ELSE CHOOSE i \in later : \A j \in later : i <= j
    IN SubSeq(sorted, 1, at - 1) \o <<x>> \o SubSeq(sorted, at, Len(sorted))

\* list.sort(key=...): stable
RECURSIVE StableSort(_)
StableSort(s) ==
    IF s = <<>> THEN <<>>
    ELSE InsertSorted(StableSort(SubSeq(s, 1, Len(s) - 1)), s[Len(s)])

\* one group of `grouped`, merged or passed through
MergeGroup(findings_at_loc) ==
    IF Len(findings_at_loc) = 1
    THEN LET f == findings_at_loc[1]
         IN Put(Put(f, "_sources", <<f["_source"]>>), "_merged", FALSE)
    ELSE merge_finding_group(findings_at_loc)

merge_overlapping_findings(fba) ==
    LET all_findings == Flatten(fba)
        keys == GroupKeys(all_findings)
        merged == [i \in 1..Len(keys) |-> MergeGroup(Grouped(all_findings, keys[i]))]
    IN IF all_findings = <<>> THEN <<>> ELSE StableSort(merged)

-----------------------------------------------------------------------------
(* The consensus adjuster: app/orchestrator/convergence.py *)

\* the judgments that name every finding, whatever their target
CountRefsAnyTarget(finding_id, refs, relationship) ==
    Cardinality({i \in 1..Len(refs) :
        Get(refs[i], "relationship", "") = relationship})

\* a count that also follows a raw finding's id to the merged finding derived
\* from it
CountRefsRawOrMerged(finding_id, refs, relationship) ==
    Cardinality({i \in 1..Len(refs) :
        /\ "target_finding_id" \in DOMAIN refs[i]
        /\ \/ refs[i].target_finding_id = finding_id
           \/ <<"merged-">> \o refs[i].target_finding_id = finding_id
        /\ Get(refs[i], "relationship", "") = relationship})

\* a judgment without target_finding_id gives None, which equals no id
CountRefs(finding_id, refs, relationship) ==
    Cardinality({i \in 1..Len(refs) :
        /\ "target_finding_id" \in DOMAIN refs[i]
        /\ refs[i].target_finding_id = finding_id
        /\ Get(refs[i], "relationship", "") = relationship})

\* the rules without the veto of a conflict
consensus_without_veto(finding, refs) ==
    LET original_severity == Get(finding, "severity", 3)
        finding_id == Get(finding, "id", <<>>)
        reinforce_count == CountRefs(finding_id, refs, "reinforce")
        extend_count == CountRefs(finding_id, refs, "extend")
    IN IF reinforce_count >= 3 THEN Min(original_severity + 2, 5)
       ELSE IF reinforce_count >= 2 THEN Min(original_severity + 1, 5)
       ELSE IF extend_count >= 2 THEN Min(original_severity + 1, 5)
       ELSE original_severity

\* the rules with one step for any two reinforcements
consensus_single_step(finding, refs) ==
    LET original_severity == Get(finding, "severity", 3)
        finding_id == Get(finding, "id", <<>>)
        reinforce_count == CountRefs(finding_id, refs, "reinforce")
        extend_count == CountRefs(finding_id, refs, "extend")
        conflict_count == CountRefs(finding_id, refs, "conflict")
    IN IF conflict_count > 0 THEN original_severity
       ELSE IF reinforce_count >= 2 \/ extend_count >= 2
            THEN Min(original_severity + 1, 5)
       ELSE original_severity

calculate_consensus_severity(finding, refs) ==
    LET original_severity == Get(finding, "severity", 3)
        finding_id == Get(finding, "id", <<>>)
        reinforce_count == CountRefs(finding_id, refs, "reinforce")
        extend_count == CountRefs(finding_id, refs, "extend")
        conflict_count == CountRefs(finding_id, refs, "conflict")
    IN IF refs = <<>> THEN original_severity
       ELSE IF conflict_count > 0 THEN original_severity
       ELSE IF reinforce_count >= 3 THEN Min(original_severity + 2, 5)
       ELSE IF reinforce_count >= 2 THEN Min(original_severity + 1, 5)
       ELSE IF extend_count >= 2 THEN Min(original_severity + 1, 5)
       ELSE original_severity

\* an adjustment that keeps an original_severity the finding already carries
AdjustFindingKeepingOriginal(finding, refs) ==
    LET severity == Get(finding, "severity", 3)
        original_severity == Get(finding, "original_severity", severity)
        consensus_severity == calculate_consensus_severity(finding, refs)
        adjusted == Put(Put(finding, "original_severity", original_severity),
                        "severity", consensus_severity)
    IN IF consensus_severity # severity
       THEN Put(adjusted, "consensus_adjusted", TRUE)
       ELSE adjusted

AdjustFinding(finding, refs) ==
    LET original_severity == Get(finding, "severity", 3)
        consensus_severity == calculate_consensus_severity(finding, refs)
        adjusted == Put(Put(finding, "original_severity", original_severity),
                        "severity", consensus_severity)
    IN IF consensus_severity # original_severity
       THEN Put(adjusted, "consensus_adjusted", TRUE)
       ELSE adjusted

apply_consensus_to_findings(findings, refs) ==
    [i \in 1..Len(findings) |-> AdjustFinding(findings[i], refs)]

-----------------------------------------------------------------------------
(* The report synthesizer: app/orchestrator/convergence.py *)

\* only the highest severity counts as critical
IsSeverityFive(f) == Get(f, "severity", 0) >= 5

\* severity >= 4: the critical section, and critical_count
IsCritical(f) == Get(f, "severity", 0) >= 4
IsMedium(f) == 2 <= Get(f, "severity", 0) /\ Get(f, "severity", 0) < 4
IsLow(f) == Get(f, "severity", 0) < 2

\* the rendered report: the sections in order, then the summary table
synthesize_markdown(findings, agents_completed) ==
    [sections |-> SelectSeq(findings, IsCritical) \o SelectSeq(findings, IsMedium)
                    \o SelectSeq(findings, IsLow),
     critical |-> Len(SelectSeq(findings, IsCritical)),
     medium |-> Len(SelectSeq(findings, IsMedium)),
     low |-> Len(SelectSeq(findings, IsLow)),
     total |-> Len(findings),
     agents |-> Len(agents_completed)]

-----------------------------------------------------------------------------
(* The inputs drawn for the pure functions *)

\* locations: an absent line_end, equal spans, overlapping spans, another file
LocationInputs == {[file_path |-> <<"a">>, line_start |-> 1],
                   [file_path |-> <<"a">>, line_start |-> 1, line_end |-> 1],
                   [file_path |-> <<"a">>, line_start |-> 1, line_end |-> 2],
                   [file_path |-> <<"a">>, line_start |-> 2, line_end |-> 2],
                   [file_path |-> <<"b">>, line_start |-> 1, line_end |-> 1]}

\* what a finding may carry as severity: the backend's reply is not validated
\* against the schema's 1..5
SeverityInputs == {3, 4, 5, 6}

FindingInputs ==
    {Put(loc, "severity", v) : loc \in LocationInputs, v \in SeverityInputs}

-----------------------------------------------------------------------------
(* The inputs drawn for the pipeline *)

Runs == 1..MaxRuns

Kinds == Range(AgentTypes)

None == <<>>
Some(x) == <<x>>

\* the finding list of a well-formed reply to one task kind: the security
\* finding lacks id and line_end, the performance finding is at the same line
OkFindings(agent_type) ==
    IF agent_type = "security"
    THEN <<[file_path |-> <<"a">>, line_start |-> 1, severity |-> 3]>>
    ELSE <<[id |-> <<"x">>, file_path |-> <<"a">>, line_start |-> 1,
            line_end |-> 1, severity |-> 2]>>

\* what the analysis backend may answer to one task
ResponseInputs(agent_type) ==
    {[kind |-> "ok", findings |-> OkFindings(agent_type), summary |-> "assessment"],
     [kind |-> "backend_error"],   \* generate_content raises
     [kind |-> "malformed"],       \* the text is not JSON
     [kind |-> "bad_shape"]}       \* JSON, but not an object holding a finding list

-----------------------------------------------------------------------------
(* The pipeline's state before any request *)

\* an invocation that has not been requested yet
IdleRun ==
    [pc |-> "idle", kind |-> "none", post_to_github |-> FALSE, loaded |-> FALSE,
     exception |-> "none", result |-> "none", agent_results |-> None,
     merged_findings |-> <<>>, report |-> None, github_review_id |-> None,
     stages |-> <<>>, event |-> "none", sink |-> "none"]

\* a run_agent coroutine that has not been created yet
NoTask == [pc |-> "none", response |-> None, findings_data |-> None,
           late_write |-> FALSE]

\* no normalisation, no cross-reference round and no webhook delivery yet
IdleNorm == [pc |-> "idle", agent_type |-> "none", input |-> <<>>, output |-> <<>>]

IdleRound ==
    [pc |-> "idle", i |-> 0, cross_references |-> <<>>, summary |-> "none",
     calls |-> 0]

AuxInit ==
    /\ norm = IdleNorm
    /\ round = IdleRound
    /\ sessions = <<>>
    /\ creator = <<>>

PipeInit ==
    /\ session \in {[exists |-> ex, status |-> "pending", has_files |-> hf,
                     agents_dispatched |-> <<>>, agents_completed |-> <<>>,
                     final_review |-> None, error |-> None] :
                        ex \in BOOLEAN, hf \in BOOLEAN}
    /\ agent_findings = <<>>
    /\ run = [r \in Runs |-> IdleRun]
    /\ task = [r \in Runs |-> [k \in Kinds |-> NoTask]]

-----------------------------------------------------------------------------
(* SpecMerge: merge_overlapping_findings applied to every drawn input *)

MergeInit ==
    /\ phase = "input"
    /\ findings_by_agent =
          [i \in 1..Len(AgentTypes) |-> [agent_type |-> AgentTypes[i], findings |-> <<>>]]
    /\ merged_findings = <<>>
    /\ cross_refs = <<>>
    /\ adjusted_findings = <<>>
    /\ merged_again = <<>>
    /\ AuxInit
    /\ PipeInit
    /\ session.exists
    /\ session.has_files

RECURSIVE TotalFindings(_)
TotalFindings(fba) ==
    IF fba = <<>> THEN 0 ELSE Len(Head(fba).findings) + TotalFindings(Tail(fba))

\* one more finding in one task kind's list, with the id of its position
DrawFinding ==
    /\ phase = "input"
    /\ TotalFindings(findings_by_agent) < MaxFindings
    /\ \E i \in 1..Len(AgentTypes), f \in FindingInputs :
         findings_by_agent' = [findings_by_agent EXCEPT ![i].findings =
             Append(@, Put(f, "id", DefaultId(AgentTypes[i], Len(@))))]
    /\ UNCHANGED <<phase, merged_findings, cross_refs, adjusted_findings, merged_again>>
    /\ UNCHANGED pipeVars
    /\ UNCHANGED auxVars

\* all_findings holds the caller's dicts themselves
NoCopyOnFlatten == FALSE

\* the elements of all_findings are copies of the caller's dicts (f.copy())
CopyOnFlatten == TRUE

\* the caller's mapping after the call: the keys _source, and for a finding
\* alone at its location _sources and _merged, are written onto the elements
\* of all_findings
InputAfterMerge(fba) ==
    IF CopyOnFlatten THEN fba
    ELSE LET all_findings == Flatten(fba)
             Written(f) ==
                 LET g == Put(f, "_source", f["_source"])
                 IN IF Len(Grouped(all_findings, location_key(g))) = 1
                    THEN Put(Put(g, "_sources", <<g["_source"]>>), "_merged", FALSE)
                    ELSE g
         IN [i \in 1..Len(fba) |->
                [fba[i] EXCEPT !.findings =
                    [j \in 1..Len(@) |-> Written(TagSource(fba[i])[j])]]]

MergeStep ==
    /\ phase = "input"
    /\ phase' = "merged"
    /\ merged_findings' = merge_overlapping_findings(findings_by_agent)
    /\ findings_by_agent' = InputAfterMerge(findings_by_agent)
    /\ UNCHANGED <<cross_refs, adjusted_findings, merged_again>>
    /\ UNCHANGED pipeVars
    /\ UNCHANGED auxVars

\* merge_overlapping_findings called once more on the same mapping
MergeAgain ==
    /\ phase = "merged"
    /\ phase' = "merged_twice"
    /\ merged_again' = merge_overlapping_findings(findings_by_agent)
    /\ findings_by_agent' = InputAfterMerge(findings_by_agent)
    /\ UNCHANGED <<merged_findings, cross_refs, adjusted_findings>>
    /\ UNCHANGED pipeVars
    /\ UNCHANGED auxVars

MergeNext == DrawFinding \/ MergeStep

SpecMerge == MergeInit /\ [][MergeNext]_vars

-----------------------------------------------------------------------------
(* SpecOrder: merge_overlapping_findings on inputs that differ in every    *)
(* component of the sort key                                                *)

OrderLocationInputs ==
    {[file_path |-> <<"a">>, line_start |-> 2, line_end |-> 2],
     [file_path |-> <<"a">>, line_start |-> 2, line_end |-> 3],
     [file_path |-> <<"a">>, line_start |-> 10, line_end |-> 10],
     [file_path |-> <<"b">>, line_start |-> 1, line_end |-> 1]}

OrderSeverityInputs == {2, 5}

OrderInputs ==
    {Put(loc, "severity", v) : loc \in OrderLocationInputs, v \in OrderSeverityInputs}

\* one more finding in one task kind's list, with the id of its position
DrawOrderFinding ==
    /\ phase = "input"
    /\ TotalFindings(findings_by_agent) < MaxFindings
    /\ \E i \in 1..Len(AgentTypes), f \in OrderInputs :
         findings_by_agent' = [findings_by_agent EXCEPT ![i].findings =
             Append(@, Put(f, "id", DefaultId(AgentTypes[i], Len(@))))]
    /\ UNCHANGED <<phase, merged_findings, cross_refs, adjusted_findings, merged_again>>
    /\ UNCHANGED pipeVars
    /\ UNCHANGED auxVars

OrderNext == DrawOrderFinding \/ MergeStep \/ MergeAgain

SpecOrder == MergeInit /\ [][OrderNext]_vars

-----------------------------------------------------------------------------
(* SpecConsensus: apply_consensus_to_findings applied to merged findings   *)
(* and every drawn list of judgments                                        *)

\* the severities the security finding of the consensus inputs may carry
ConsensusSeverityInputs == {3, 4}

\* one finding per task kind, at one location or at two
ConsensusInputs ==
    {<<[agent_type |-> "security",
        findings |-> <<[id |-> DefaultId("security", 0), file_path |-> <<"a">>,
                        line_start |-> 1, line_end |-> 1, severity |-> s]>>],
       [agent_type |-> "performance",
        findings |-> <<[id |-> DefaultId("performance", 0), file_path |-> fp,
                        line_start |-> 1, line_end |-> 1, severity |-> 2]>>]>> :
        s \in ConsensusSeverityInputs, fp \in {<<"a">>, <<"b">>}}

ConsensusInit ==
    /\ phase = "input"
    /\ findings_by_agent \in ConsensusInputs
    /\ merged_findings = <<>>
    /\ cross_refs = <<>>
    /\ adjusted_findings = <<>>
    /\ merged_again = <<>>
    /\ AuxInit
    /\ PipeInit
    /\ session.exists
    /\ session.has_files

RelationshipInputs == {"reinforce", "extend", "conflict"}

\* ids a judgment may name: those of the raw findings the reviewing agent was
\* shown, those of the merged findings, and one that names no finding
TargetInputs ==
    {Flatten(findings_by_agent)[i].id : i \in 1..Len(Flatten(findings_by_agent))}
        \cup {merged_findings[i].id : i \in 1..Len(merged_findings)}
        \cup {<<"z">>}

\* run_cross_reference_round, the loop over one reviewing agent's reply: one
\* more judgment is stored and appended to the returned list; its target is
\* not looked up
DrawCrossRef ==
    /\ phase = "merged"
    /\ Len(cross_refs) < MaxCrossRefs
    /\ \E t \in TargetInputs, rel \in RelationshipInputs :
         cross_refs' = Append(cross_refs,
             [source_agent |-> AgentTypes[1], target_finding_id |-> t,
              relationship |-> rel])
    /\ UNCHANGED <<phase, findings_by_agent, merged_findings, adjusted_findings, merged_again>>
    /\ UNCHANGED pipeVars
    /\ UNCHANGED auxVars

ConsensusStep ==
    /\ phase = "merged"
    /\ phase' = "adjusted"
    /\ adjusted_findings' = apply_consensus_to_findings(merged_findings, cross_refs)
    /\ UNCHANGED <<findings_by_agent, merged_findings, cross_refs, merged_again>>
    /\ UNCHANGED pipeVars
    /\ UNCHANGED auxVars

ConsensusNext == MergeStep \/ DrawCrossRef \/ ConsensusStep

SpecConsensus == ConsensusInit /\ [][ConsensusNext]_vars


-----------------------------------------------------------------------------
(* The task dispatcher: app/agents/runner.py *)

\* lines 99-106 of run_agent: a default id and a default line_end
NormalizeFindings(agent_type, findings_list) ==
    [i \in 1..Len(findings_list) |->
        LET f == findings_list[i]
            g == IF "id" \notin DOMAIN f
                 THEN Put(f, "id", DefaultId(agent_type, i - 1)) ELSE f
        IN IF "line_end" \notin DOMAIN g
           THEN Put(g, "line_end", Get(g, "line_start", 0)) ELSE g]

\* findings_data after the try block and the normalisation, for a reply that
\* does not make run_agent raise
FindingsData(agent_type, resp) ==
    CASE resp.kind = "ok" ->
            [findings |-> NormalizeFindings(agent_type, resp.findings),
             summary |-> resp.summary]
      [] resp.kind = "malformed" ->
            [findings |-> <<>>, summary |-> "Error parsing response"]
      [] resp.kind = "backend_error" ->
            [findings |-> <<>>, summary |-> "Error"]

\* what gather(..., return_exceptions=True) turns a raised task into
DegradedResult == [findings |-> <<>>, summary |-> "Error"]

Settled(r, k) == task[r][k].pc \in {"done", "failed"}

\* the merge has started in invocation r
MergeStarted(r) == "merge" \in Range(run[r].stages)

\* the invocation ends: its coroutine frames, and those of its settled tasks,
\* are gone; what the caller got is kept
Finish(r, how, result, why) ==
    /\ run' = [run EXCEPT ![r] =
          [IdleRun EXCEPT !.pc = how, !.kind = run[r].kind, !.loaded = run[r].loaded,
                          !.result = result, !.exception = why,
                          !.stages = run[r].stages]]
    /\ task' = [task EXCEPT ![r] =
          [k \in Kinds |-> IF Settled(r, k) THEN NoTask ELSE task[r][k]]]

\* an exception leaves the invocation
Raise(r, why) == Finish(r, "raised", "none", why)

\* invocations are requested in the order of their numbers
MayStart(r) ==
    /\ run[r].pc = "idle"
    /\ \A q \in Runs : q < r => run[q].pc # "idle"

\* run_agent up to its first store write: the backend call, the parse and the
\* normalisation
TaskCall(r, k) ==
    /\ task[r][k].pc = "call"
    /\ \E resp \in ResponseInputs(k) :
         task' = [task EXCEPT ![r][k] =
            IF resp.kind = "bad_shape"
            THEN [@ EXCEPT !.pc = "failed"]
            ELSE [@ EXCEPT !.pc = "upsert", !.response = Some(resp),
                           !.findings_data = Some(FindingsData(k, resp))]]
    /\ UNCHANGED <<session, agent_findings, run>>
    /\ UNCHANGED pureVars

\* the documents of the collection that match {session_id, agent_type}
DocsOf(coll, agent_type) == SelectSeq(coll, LAMBDA d : d.agent_type = agent_type)

\* insert_one: the document is added whatever the collection holds
InsertOne(coll, agent_type, doc) == Append(coll, doc)

\* update_one({session_id, agent_type}, {"$set": doc}, upsert=True): the
\* first matching document gets the fields of doc, and doc is inserted when
\* none matches; the unique index on (session_id, agent_type) makes the
\* match-or-insert atomic
UpdateOneUpsert(coll, agent_type, doc) ==
    LET hits == {i \in 1..Len(coll) : coll[i].agent_type = agent_type}
    IN IF hits = {} THEN Append(coll, doc)
       ELSE LET at == CHOOSE i \in hits : \A j \in hits : i <= j
            IN [coll EXCEPT ![at] = doc @@ coll[at]]

\* agent_findings_doc of run_agent
AgentFindingsDoc(agent_type, findings_data) ==
    [agent_type |-> agent_type,
     findings |-> Get(findings_data, "findings", <<>>),
     summary |-> Get(findings_data, "summary", "")]

\* run_agent: the upsert of the raw-findings document of (session, agent_type)
TaskUpsert(r, k) ==
    /\ task[r][k].pc = "upsert"
    /\ \/ /\ agent_findings' = UpdateOneUpsert(agent_findings, k,
                AgentFindingsDoc(k, task[r][k].findings_data[1]))
          /\ task' = [task EXCEPT ![r][k].pc = "addtoset",
                                  ![r][k].late_write = @ \/ MergeStarted(r)]
       \/ /\ task' = [task EXCEPT ![r][k] = [NoTask EXCEPT !.pc = "failed"]]
          /\ UNCHANGED agent_findings
    /\ UNCHANGED <<session, run>>
    /\ UNCHANGED pureVars

\* $push: the value is appended whatever the array holds
Push(array, v) == Append(array, v)

\* $addToSet: the value is appended unless the array holds it
AddToSet(array, v) == IF v \in Range(array) THEN array ELSE Append(array, v)

\* run_agent: $addToSet agents_completed on the session, then return
TaskAddToSet(r, k) ==
    /\ task[r][k].pc = "addtoset"
    /\ \/ /\ session' = IF session.exists
                        THEN [session EXCEPT !.agents_completed = AddToSet(@, k)]
                        ELSE session
          /\ task' = [task EXCEPT ![r][k].pc = "done",
                                  ![r][k].late_write = @ \/ MergeStarted(r)]
       \/ /\ task' = [task EXCEPT ![r][k] = [NoTask EXCEPT !.pc = "failed"]]
          /\ UNCHANGED session
    /\ UNCHANGED <<agent_findings, run>>
    /\ UNCHANGED pureVars

\* run_all_agents before the gather: the session is marked analyzing and one
\* run_agent coroutine per task kind is created
Dispatch(r) ==
    /\ run[r].pc = "dispatch"
    /\ \/ /\ session' = IF session.exists
                        THEN [session EXCEPT !.status = "analyzing",
                                             !.agents_dispatched = AgentTypes]
                        ELSE session
          /\ task' = [task EXCEPT ![r] = [k \in Kinds |-> [NoTask EXCEPT !.pc = "call"]]]
          /\ run' = [run EXCEPT ![r].pc = "gather",
                                ![r].stages = Append(@, "dispatcher")]
       \/ /\ Raise(r, "store")
          /\ UNCHANGED session
    /\ UNCHANGED agent_findings
    /\ UNCHANGED pureVars

\* where the caller of run_all_agents goes on
AfterGather(r) == IF run[r].kind = "orchestrate" THEN "converging" ELSE "respond"

\* a gather that resumes as soon as one task has settled
GatherFirstSettled(r) ==
    /\ run[r].pc = "gather"
    /\ \E k \in Kinds : Settled(r, k)
    /\ run' = [run EXCEPT
          ![r].agent_results = Some([k \in Kinds |->
                IF task[r][k].pc = "done" THEN task[r][k].findings_data[1]
                ELSE DegradedResult]),
          ![r].pc = AfterGather(r)]
    /\ UNCHANGED <<session, agent_findings, task>>
    /\ UNCHANGED pureVars

\* a gather without return_exceptions: a raised task raises in the caller
GatherPropagating(r) ==
    /\ run[r].pc = "gather"
    /\ \A k \in Kinds : Settled(r, k)
    /\ IF \E k \in Kinds : task[r][k].pc = "failed"
       THEN Raise(r, "task")
       ELSE /\ run' = [run EXCEPT
                  ![r].agent_results =
                      Some([k \in Kinds |-> task[r][k].findings_data[1]]),
                  ![r].pc = AfterGather(r)]
            /\ UNCHANGED task
    /\ UNCHANGED <<session, agent_findings>>
    /\ UNCHANGED pureVars

\* a collection loop that skips a raised task instead of degrading it
GatherSkipping(r) ==
    /\ run[r].pc = "gather"
    /\ \A k \in Kinds : Settled(r, k)
    /\ run' = [run EXCEPT
          ![r].agent_results =
              Some([k \in {j \in Kinds : task[r][j].pc = "done"} |->
                        task[r][k].findings_data[1]]),
          ![r].pc = AfterGather(r)]
    /\ UNCHANGED <<session, agent_findings, task>>
    /\ UNCHANGED pureVars

\* run_all_agents from the gather on: every task has settled, a raised task
\* becomes an empty result, and the mapping is returned to the caller
Gather(r) ==
    /\ run[r].pc = "gather"
    /\ \A k \in Kinds : Settled(r, k)
    /\ run' = [run EXCEPT
          ![r].agent_results = Some([k \in Kinds |->
                IF task[r][k].pc = "failed" THEN DegradedResult
                ELSE task[r][k].findings_data[1]]),
          ![r].pc = AfterGather(r)]
    /\ UNCHANGED <<session, agent_findings, task>>
    /\ UNCHANGED pureVars

-----------------------------------------------------------------------------
(* The orchestration entry point: app/orchestrator/orchestrator.py *)

\* list(agent_results.keys()): the dict's insertion order
ResultKeys(agent_results) == SelectSeq(AgentTypes, LAMBDA k : k \in DOMAIN agent_results)

\* findings_by_agent as built from agent_results
FindingsByAgent(agent_results) ==
    LET keys == ResultKeys(agent_results)
    IN [i \in 1..Len(keys) |->
           [agent_type |-> keys[i],
            findings |-> Get(agent_results[keys[i]], "findings", <<>>)]]

CriticalCount(findings) == Len(SelectSeq(findings, IsCritical))

\* orchestrate_review that does not look at the session's files
StartOrchestrateAnyFiles(r) ==
    /\ MayStart(r)
    /\ \/ /\ run' = [run EXCEPT ![r].kind = "orchestrate", ![r].pc = "raised",
                                ![r].exception = "store"]
       \/ /\ ~session.exists
          /\ run' = [run EXCEPT ![r].kind = "orchestrate", ![r].pc = "raised",
                                ![r].exception = "not_found"]
       \/ /\ session.exists
          /\ run' = [run EXCEPT ![r].kind = "orchestrate", ![r].loaded = TRUE,
                                ![r].pc = "dispatch"]
    /\ UNCHANGED <<session, agent_findings, task>>
    /\ UNCHANGED pureVars

\* orchestrate_review(session_id) up to the dispatch: the session is loaded
\* and its files are looked at
StartOrchestrate(r) ==
    /\ MayStart(r)
    /\ \/ /\ run' = [run EXCEPT ![r].kind = "orchestrate", ![r].pc = "raised",
                                ![r].exception = "store"]
       \/ /\ ~session.exists
          /\ run' = [run EXCEPT ![r].kind = "orchestrate", ![r].pc = "raised",
                                ![r].exception = "not_found"]
       \/ /\ session.exists
          /\ run' = [run EXCEPT ![r].kind = "orchestrate", ![r].loaded = TRUE,
                                ![r].pc = IF session.has_files THEN "dispatch"
                                          ELSE "skip_write"]
    /\ UNCHANGED <<session, agent_findings, task>>
    /\ UNCHANGED pureVars

\* orchestrate_review on a session without files: complete, "skipped"
OrchSkipWrite(r) ==
    /\ run[r].pc = "skip_write"
    /\ \/ /\ session' = IF session.exists
                        THEN [session EXCEPT !.status = "complete",
                                             !.error = Some("No reviewable files")]
                        ELSE session
          /\ Finish(r, "returned", "skipped", "none")
       \/ /\ Raise(r, "store")
          /\ UNCHANGED session
    /\ UNCHANGED agent_findings
    /\ UNCHANGED pureVars

\* orchestrate_review steps 3 to 5: the session is marked converging, then the
\* findings are merged and the report is rendered, without suspension; the
\* caller's post_to_github decides where the run goes next
OrchConverging(r) ==
    /\ run[r].pc = "converging"
    /\ \/ LET agent_results == run[r].agent_results[1]
              agents_completed == ResultKeys(agent_results)
              merged == merge_overlapping_findings(FindingsByAgent(agent_results))
          IN /\ session' = IF session.exists
                           THEN [session EXCEPT !.status = "converging",
                                                !.agents_completed = agents_completed]
                           ELSE session
             /\ \E post \in BOOLEAN :
                  run' = [run EXCEPT
                      ![r].post_to_github = post,
                      ![r].merged_findings = merged,
                      ![r].report = Some(synthesize_markdown(merged, agents_completed)),
                      ![r].stages = @ \o <<"merge", "report">>,
                      ![r].pc = IF post THEN "post" ELSE "persist"]
             /\ UNCHANGED task
       \/ /\ Raise(r, "store")
          /\ UNCHANGED session
    /\ UNCHANGED agent_findings
    /\ UNCHANGED pureVars

\* every report is posted as a comment
DispositionComment(critical_count) == "COMMENT"

\* event = "REQUEST_CHANGES" if critical_count > 0 else "COMMENT"
Disposition(critical_count) ==
    IF critical_count > 0 THEN "REQUEST_CHANGES" ELSE "COMMENT"

\* a step 6 without its try block: a failure of the sink leaves the run
OrchPostPropagating(r) ==
    /\ run[r].pc = "post"
    /\ \/ /\ run' = [run EXCEPT
                ![r].event = Disposition(CriticalCount(run[r].merged_findings)),
                ![r].sink = "ok",
                ![r].github_review_id = Some(r), ![r].pc = "persist"]
          /\ UNCHANGED task
       \/ Raise(r, "sink")
    /\ UNCHANGED <<session, agent_findings>>
    /\ UNCHANGED pureVars

\* orchestrate_review step 6: the report and its disposition are handed to
\* the report sink (post_pr_review); a failure of the sink is logged and the
\* run goes on without review id
OrchPost(r) ==
    /\ run[r].pc = "post"
    /\ \/ run' = [run EXCEPT
             ![r].event = Disposition(CriticalCount(run[r].merged_findings)),
             ![r].sink = "ok",
             ![r].github_review_id = Some(r), ![r].pc = "persist"]
       \/ run' = [run EXCEPT
             ![r].event = Disposition(CriticalCount(run[r].merged_findings)),
             ![r].sink = "failed",
             ![r].pc = "persist"]
    /\ UNCHANGED <<session, agent_findings, task>>
    /\ UNCHANGED pureVars

\* orchestrate_review step 7: final_review and status complete are persisted
OrchPersist(r) ==
    /\ run[r].pc = "persist"
    /\ \/ /\ session' = IF session.exists
                        THEN [session EXCEPT
                            !.status = "complete",
                            !.final_review = Some(
                               [summary |-> run[r].report[1],
                                findings_count |-> Len(run[r].merged_findings),
                                critical_count |-> CriticalCount(run[r].merged_findings),
                                github_review_id |-> run[r].github_review_id])]
                        ELSE session
          /\ Finish(r, "returned", "complete", "none")
       \/ /\ Raise(r, "store")
          /\ UNCHANGED session
    /\ UNCHANGED agent_findings
    /\ UNCHANGED pureVars

-----------------------------------------------------------------------------
(* The trigger surface: app/api/webhook.py *)

\* analyze_session up to the dispatch
StartAnalyze(r) ==
    /\ MayStart(r)
    /\ \/ /\ run' = [run EXCEPT ![r].kind = "analyze", ![r].pc = "raised",
                                ![r].exception = "store"]
       \/ /\ ~session.exists
          /\ run' = [run EXCEPT ![r].kind = "analyze", ![r].pc = "raised",
                                ![r].exception = "not_found"]
       \/ /\ session.exists
          /\ session.status \in {"analyzing", "converging", "complete"}
          /\ run' = [run EXCEPT ![r].kind = "analyze", ![r].loaded = TRUE,
                                ![r].pc = "returned", ![r].result = "already_processing"]
       \/ /\ session.exists
          /\ session.status \notin {"analyzing", "converging", "complete"}
          /\ run' = [run EXCEPT ![r].kind = "analyze", ![r].loaded = TRUE,
                                ![r].pc = IF session.has_files THEN "dispatch" ELSE "returned",
                                ![r].result = IF session.has_files THEN @ ELSE "skipped"]
    /\ UNCHANGED <<session, agent_findings, task>>
    /\ UNCHANGED pureVars

\* analyze_session after run_all_agents has returned: the counts are summed
\* and the response is sent
AnalyzeRespond(r) ==
    /\ run[r].pc = "respond"
    /\ Finish(r, "returned", "completed", "none")
    /\ UNCHANGED <<session, agent_findings>>
    /\ UNCHANGED pureVars

\* post_existing_review up to the call of the report sink: the session is
\* loaded, and the stored report and its disposition are prepared
StartPostExisting(r) ==
    /\ MayStart(r)
    /\ \/ /\ run' = [run EXCEPT ![r].kind = "post_existing", ![r].pc = "raised",
                                ![r].exception = "store"]
       \/ /\ ~session.exists
          /\ run' = [run EXCEPT ![r].kind = "post_existing", ![r].pc = "raised",
                                ![r].exception = "not_found"]
       \/ /\ session.exists
          /\ session.final_review = None
          /\ run' = [run EXCEPT ![r].kind = "post_existing", ![r].loaded = TRUE,
                                ![r].pc = "raised", ![r].exception = "not_generated"]
       \/ /\ session.exists
          /\ session.final_review # None
          /\ session.final_review[1].github_review_id # None
          /\ run' = [run EXCEPT ![r].kind = "post_existing", ![r].loaded = TRUE,
                                ![r].pc = "returned", ![r].result = "already_posted"]
       \/ /\ session.exists
          /\ session.final_review # None
          /\ session.final_review[1].github_review_id = None
          /\ run' = [run EXCEPT
                ![r].kind = "post_existing", ![r].loaded = TRUE,
                ![r].report = Some(session.final_review[1].summary),
                ![r].event = Disposition(session.final_review[1].critical_count),
                ![r].pc = "sink"]
    /\ UNCHANGED <<session, agent_findings, task>>
    /\ UNCHANGED pureVars

\* post_existing_review: the call of post_pr_review; its error reaches the
\* caller
PostExistingSink(r) ==
    /\ run[r].pc = "sink"
    /\ \/ /\ run' = [run EXCEPT ![r].sink = "ok", ![r].github_review_id = Some(r),
                                ![r].pc = "update"]
          /\ UNCHANGED task
       \/ Raise(r, "sink")
    /\ UNCHANGED <<session, agent_findings>>
    /\ UNCHANGED pureVars

\* post_existing_review: $set final_review.github_review_id, then "posted"
PostExistingUpdate(r) ==
    /\ run[r].pc = "update"
    /\ \/ /\ session' = IF session.exists /\ session.final_review # None
                        THEN [session EXCEPT !.final_review =
                                 Some([@[1] EXCEPT !.github_review_id =
                                                       run[r].github_review_id])]
                        ELSE session
          /\ Finish(r, "returned", "posted", "none")
       \/ /\ Raise(r, "store")
          /\ UNCHANGED session
    /\ UNCHANGED agent_findings
    /\ UNCHANGED pureVars

-----------------------------------------------------------------------------
(* SpecRound: run_cross_reference_round over the raw-findings documents of  *)
(* one session: app/orchestrator/cross_reference.py                         *)

\* a finding as the round's summary reads it
RoundFinding(agent_type) ==
    [id |-> DefaultId(agent_type, 0), file_path |-> <<"a">>, line_start |-> 1,
     line_end |-> 1, severity |-> 3, title |-> "t", category |-> "c",
     description |-> "d"]

\* a finding of a reply that carried no title
UntitledFinding(agent_type) ==
    [k \in (DOMAIN RoundFinding(agent_type)) \ {"title"} |->
        RoundFinding(agent_type)[k]]

\* the findings a stored document may hold
RoundFindingInputs(agent_type) ==
    {<<>>, <<RoundFinding(agent_type)>>, <<UntitledFinding(agent_type)>>}

\* the documents of the session: none, one, or one per dispatched kind in
\* either order of insertion
RoundDocInputs ==
    {<<>>}
    \cup {<<[agent_type |-> k, findings |-> <<RoundFinding(k)>>,
             summary |-> "s"]>> : k \in Kinds}
    \cup {<<[agent_type |-> AgentTypes[i],
             findings |-> IF i = 1 THEN f ELSE g, summary |-> "s"],
            [agent_type |-> AgentTypes[3 - i],
             findings |-> IF i = 1 THEN g ELSE f, summary |-> "s"]>> :
             i \in 1..2, f \in RoundFindingInputs(AgentTypes[1]),
             g \in RoundFindingInputs(AgentTypes[2])}

\* the keys the summary of another agent's finding subscripts
SummaryKeys == {"title", "severity", "file_path", "line_start", "category",
                "description", "id"}

SummaryOk(findings) ==
    \A i \in 1..Len(findings) : SummaryKeys \subseteq DOMAIN findings[i]

\* judgments of a reply: two well-formed ones, and one without comment
JudgmentA == [target_finding_id |-> DefaultId("security", 0),
              relationship |-> "reinforce", comment |-> "c"]

JudgmentB == [target_finding_id |-> <<"z">>, relationship |-> "conflict",
              comment |-> "c", confidence |-> "0.9"]

JudgmentNoComment == [target_finding_id |-> <<"z">>, relationship |-> "extend"]

\* what the backend may answer to one reviewing agent
RoundReplyInputs ==
    {[kind |-> "backend_error", cross_references |-> <<>>],
     [kind |-> "unparseable", cross_references |-> <<>>],
     [kind |-> "bad_shape", cross_references |-> <<>>],
     [kind |-> "ok", cross_references |-> <<>>],
     [kind |-> "ok", cross_references |-> <<JudgmentA>>],
     [kind |-> "ok", cross_references |-> <<JudgmentA, JudgmentB>>],
     [kind |-> "ok", cross_references |-> <<JudgmentA, JudgmentNoComment, JudgmentB>>],
     [kind |-> "ok", cross_references |-> <<JudgmentNoComment>>]}

\* cross_ref_doc
CrossRefDoc(source_agent, cross_ref) ==
    [source_agent |-> source_agent,
     target_finding_id |-> cross_ref.target_finding_id,
     relationship |-> cross_ref.relationship,
     comment |-> cross_ref.comment,
     confidence |-> Get(cross_ref, "confidence", "0.8")]

\* the store loop: the judgments are inserted one by one until one of them
\* lacks a subscripted key, which ends the agent's turn in the except clause
RECURSIVE StoredDocs(_, _)
StoredDocs(source_agent, cross_refs_of_reply) ==
    IF cross_refs_of_reply = <<>> THEN <<>>
    ELSE IF {"target_finding_id", "relationship", "comment"}
               \subseteq DOMAIN Head(cross_refs_of_reply)
         THEN <<CrossRefDoc(source_agent, Head(cross_refs_of_reply))>>
                 \o StoredDocs(source_agent, Tail(cross_refs_of_reply))
         ELSE <<>>

RoundInit ==
    /\ phase = "input"
    /\ findings_by_agent = <<>>
    /\ merged_findings = <<>>
    /\ cross_refs = <<>>
    /\ adjusted_findings = <<>>
    /\ merged_again = <<>>
    /\ AuxInit
    /\ session = [exists |-> TRUE, status |-> "analyzing", has_files |-> TRUE,
                  agents_dispatched |-> AgentTypes, agents_completed |-> <<>>,
                  final_review |-> None, error |-> None]
    /\ agent_findings \in RoundDocInputs
    /\ run = [r \in Runs |-> IdleRun]
    /\ task = [r \in Runs |-> [k \in Kinds |-> NoTask]]

\* the loop goes to the next document, or the round returns
Advance(rd) ==
    IF rd.i = Len(agent_findings)
    THEN [rd EXCEPT !.pc = "returned", !.summary = "Generated"]
    ELSE [rd EXCEPT !.pc = "agent", !.i = @ + 1]

\* a round that enters its loop whatever the number of documents
RoundStartNoGuard ==
    /\ round.pc = "idle"
    /\ round' = IF agent_findings = <<>>
                THEN [round EXCEPT !.pc = "returned", !.summary = "Generated"]
                ELSE [round EXCEPT !.pc = "agent", !.i = 1]
    /\ UNCHANGED <<phase, findings_by_agent, merged_findings, cross_refs,
                   adjusted_findings, merged_again, norm, sessions, creator>>
    /\ UNCHANGED pipeVars

\* run_cross_reference_round up to its loop: the documents are read; with
\* fewer than two the round returns at once
RoundStart ==
    /\ round.pc = "idle"
    /\ round' = IF Len(agent_findings) < 2
                THEN [round EXCEPT !.pc = "returned",
                         !.summary = "Not enough agents for cross-reference"]
                ELSE [round EXCEPT !.pc = "agent", !.i = 1]
    /\ UNCHANGED <<phase, findings_by_agent, merged_findings, cross_refs,
                   adjusted_findings, merged_again, norm, sessions, creator>>
    /\ UNCHANGED pipeVars

\* one turn of the loop up to the backend call: the summary of the other
\* agents' findings is built, outside any try block
RoundAgent ==
    /\ round.pc = "agent"
    /\ LET source_agent == agent_findings[round.i].agent_type
           others == SelectSeq(agent_findings,
                               LAMBDA d : d.agent_type # source_agent)
       IN round' =
            IF \E j \in 1..Len(others) : ~SummaryOk(others[j].findings)
            THEN [round EXCEPT !.pc = "raised"]
            ELSE IF others = <<>> \/ source_agent \notin Range(AGENT_CLASSES)
            THEN Advance(round)
            ELSE [round EXCEPT !.pc = "call"]
    /\ UNCHANGED <<phase, findings_by_agent, merged_findings, cross_refs,
                   adjusted_findings, merged_again, norm, sessions, creator>>
    /\ UNCHANGED pipeVars

\* the try block of one turn: the backend call, the parse and the store loop
RoundCall ==
    /\ round.pc = "call"
    /\ \E reply \in RoundReplyInputs :
         LET source_agent == agent_findings[round.i].agent_type
             stored == IF reply.kind = "ok"
                       THEN StoredDocs(source_agent, reply.cross_references)
                       ELSE <<>>
         IN /\ cross_refs' = cross_refs \o stored
            /\ round' = Advance([round EXCEPT
                            !.calls = @ + 1,
                            !.cross_references = @ \o stored])
    /\ UNCHANGED <<phase, findings_by_agent, merged_findings,
                   adjusted_findings, merged_again, norm, sessions, creator>>
    /\ UNCHANGED pipeVars

RoundNext == RoundStart \/ RoundAgent \/ RoundCall

SpecRound == RoundInit /\ [][RoundNext]_vars

-----------------------------------------------------------------------------
(* SpecNormalize: the normalisation of run_agent applied to every drawn     *)
(* reply of one task: app/agents/runner.py                                  *)

\* the ids a reply may give to a finding: the ids of the prompt's example
\* for the first two positions, and another one
NormIdInputs == {DefaultId(k, i) : k \in Kinds, i \in 0..1} \cup {<<"x">>}

\* the findings of a reply: with or without id, line_start and line_end
NormFindingInputs ==
    LET base == [severity |-> 3, file_path |-> <<"a">>]
        withId == {base} \cup {Put(base, "id", x) : x \in NormIdInputs}
        withStart == withId \cup {Put(f, "line_start", 5) : f \in withId}
    IN withStart \cup {Put(f, "line_end", 7) : f \in withStart}

NormalizeInit ==
    /\ phase = "input"
    /\ findings_by_agent = <<>>
    /\ merged_findings = <<>>
    /\ cross_refs = <<>>
    /\ adjusted_findings = <<>>
    /\ merged_again = <<>>
    /\ AuxInit
    /\ PipeInit

\* one more finding in the reply's findings list
DrawNormFinding ==
    /\ norm.pc = "idle"
    /\ Len(norm.input) < MaxFindings
    /\ \E f \in NormFindingInputs :
          norm' = [norm EXCEPT !.input = Append(@, f)]
    /\ UNCHANGED <<phase, findings_by_agent, merged_findings, cross_refs,
                   adjusted_findings, merged_again, round, sessions, creator>>
    /\ UNCHANGED pipeVars

\* run_agent's loop over findings_list, for the task of one kind
NormalizeStep ==
    /\ norm.pc = "idle"
    /\ \E k \in Kinds :
          norm' = [norm EXCEPT !.pc = "done", !.agent_type = k,
                               !.output = NormalizeFindings(k, norm.input)]
    /\ UNCHANGED <<phase, findings_by_agent, merged_findings, cross_refs,
                   adjusted_findings, merged_again, round, sessions, creator>>
    /\ UNCHANGED pipeVars

NormalizeNext == DrawNormFinding \/ NormalizeStep

SpecNormalize == NormalizeInit /\ [][NormalizeNext]_vars

-----------------------------------------------------------------------------
(* SpecSessions: webhook deliveries that create sessions:                   *)
(* create_session_from_payload, app/orchestrator/orchestrator.py            *)

\* the deliveries, numbered in the order of their arrival
Deliveries == 1..MaxDeliveries

\* (repo_owner, repo_name, pr_number, head_sha) of a delivery's payload
PayloadInputs ==
    {[repo_owner |-> "o", repo_name |-> "n", pr_number |-> p, head_sha |-> h] :
        p \in {1, 2}, h \in {"h1", "h2"}}

\* the documents of review_sessions that match the query of the lookup
Existing(github_ctx) ==
    {i \in 1..Len(sessions) : sessions[i].github = github_ctx}

SessionsInit ==
    /\ phase = "input"
    /\ findings_by_agent = <<>>
    /\ merged_findings = <<>>
    /\ cross_refs = <<>>
    /\ adjusted_findings = <<>>
    /\ merged_again = <<>>
    /\ AuxInit
    /\ PipeInit
    /\ session.exists
    /\ session.has_files

\* github_webhook: a pull_request delivery with a reviewed action starts the
\* orchestration as a background task
Deliver ==
    /\ Len(creator) < MaxDeliveries
    /\ \E ctx \in PayloadInputs :
          creator' = Append(creator,
              [pc |-> "find", github |-> ctx, files |-> FALSE, result |-> 0])
    /\ UNCHANGED <<phase, findings_by_agent, merged_findings, cross_refs,
                   adjusted_findings, merged_again, norm, round, sessions>>
    /\ UNCHANGED pipeVars

\* create_session_from_payload up to the fetch of the files: the lookup
CreateFind(d) ==
    /\ d \in DOMAIN creator
    /\ creator[d].pc = "find"
    /\ \/ creator' = [creator EXCEPT ![d].pc = "raised"]
       \/ /\ Existing(creator[d].github) # {}
          /\ \E i \in Existing(creator[d].github) :
                creator' = [creator EXCEPT ![d].pc = "returned", ![d].result = i]
       \/ /\ Existing(creator[d].github) = {}
          /\ creator' = [creator EXCEPT ![d].pc = "fetch"]
    /\ UNCHANGED <<phase, findings_by_agent, merged_findings, cross_refs,
                   adjusted_findings, merged_again, norm, round, sessions>>
    /\ UNCHANGED pipeVars

\* github.get_pr_files returns the reviewable files, or raises
CreateFetch(d) ==
    /\ d \in DOMAIN creator
    /\ creator[d].pc = "fetch"
    /\ \/ creator' = [creator EXCEPT ![d].pc = "raised"]
       \/ \E has_files \in BOOLEAN :
             creator' = [creator EXCEPT ![d].pc = "insert", ![d].files = has_files]
    /\ UNCHANGED <<phase, findings_by_agent, merged_findings, cross_refs,
                   adjusted_findings, merged_again, norm, round, sessions>>
    /\ UNCHANGED pipeVars

\* insert_one of the new pending session
CreateInsert(d) ==
    /\ d \in DOMAIN creator
    /\ creator[d].pc = "insert"
    /\ \/ /\ creator' = [creator EXCEPT ![d].pc = "raised"]
          /\ UNCHANGED sessions
       \/ /\ sessions' = Append(sessions,
                [github |-> creator[d].github, has_files |-> creator[d].files,
                 status |-> "pending"])
          /\ creator' = [creator EXCEPT ![d].pc = "returned",
                                        ![d].result = Len(sessions) + 1]
    /\ UNCHANGED <<phase, findings_by_agent, merged_findings, cross_refs,
                   adjusted_findings, merged_again, norm, round>>
    /\ UNCHANGED pipeVars

SessionsNext ==
    \/ Deliver
    \/ \E d \in Deliveries :
          \/ CreateFind(d)
          \/ CreateFetch(d)
          \/ CreateInsert(d)

SpecSessions == SessionsInit /\ [][SessionsNext]_vars

-----------------------------------------------------------------------------
(* SpecPost: post_existing_review requests on a session whose run is over:  *)
(* app/api/webhook.py                                                        *)

\* the merged findings of the run that persisted the final_review
PostFindingInputs ==
    {merge_overlapping_findings(FindingsByAgent(
        [k \in ks |-> FindingsData(k, [kind |-> "ok", findings |-> OkFindings(k),
                                       summary |-> "assessment"])])) :
        ks \in SUBSET Kinds}

\* final_review as orchestrate_review persists it: not posted, or posted by
\* the run itself
FinalReviewInputs ==
    {[summary |-> synthesize_markdown(fs, AgentTypes),
      findings_count |-> Len(fs),
      critical_count |-> CriticalCount(fs),
      github_review_id |-> id] :
        fs \in PostFindingInputs, id \in {None, Some(0)}}

\* the session after its run: complete with a final_review, or complete as
\* skipped or still pending without one, or no session under that id
PostInit ==
    /\ phase = "input"
    /\ findings_by_agent = <<>>
    /\ merged_findings = <<>>
    /\ cross_refs = <<>>
    /\ adjusted_findings = <<>>
    /\ merged_again = <<>>
    /\ AuxInit
    /\ session \in
          {[exists |-> TRUE, status |-> "complete", has_files |-> TRUE,
            agents_dispatched |-> AgentTypes, agents_completed |-> AgentTypes,
            final_review |-> Some(fr), error |-> None] : fr \in FinalReviewInputs}
          \cup
          {[exists |-> ex, status |-> "pending", has_files |-> TRUE,
            agents_dispatched |-> <<>>, agents_completed |-> <<>>,
            final_review |-> None, error |-> None] : ex \in BOOLEAN}
    /\ agent_findings = <<>>
    /\ run = [r \in Runs |-> IdleRun]
    /\ task = [r \in Runs |-> [k \in Kinds |-> NoTask]]

PostNext ==
    \E r \in Runs :
        \/ StartPostExisting(r)
        \/ PostExistingSink(r)
        \/ PostExistingUpdate(r)

SpecPost == PostInit /\ [][PostNext]_vars

-----------------------------------------------------------------------------
(* Spec: the pipeline over one session, MaxRuns invocations, any interleaving *)

Init ==
    /\ phase = "input"
    /\ findings_by_agent = <<>>
    /\ merged_findings = <<>>
    /\ cross_refs = <<>>
    /\ adjusted_findings = <<>>
    /\ merged_again = <<>>
    /\ AuxInit
    /\ PipeInit

Next ==
    \E r \in Runs :
        \/ StartOrchestrate(r)
        \/ StartAnalyze(r)
        \/ OrchSkipWrite(r)
        \/ Dispatch(r)
        \/ \E k \in Kinds : TaskCall(r, k)
        \/ \E k \in Kinds : TaskUpsert(r, k)
        \/ \E k \in Kinds : TaskAddToSet(r, k)
        \/ Gather(r)
        \/ AnalyzeRespond(r)
        \/ OrchConverging(r)
        \/ OrchPost(r)
        \/ OrchPersist(r)
        \/ StartPostExisting(r)
        \/ PostExistingSink(r)
        \/ PostExistingUpdate(r)

Spec == Init /\ [][Next]_vars

-----------------------------------------------------------------------------
(* SpecLive: the pipeline when every call of the backend, the store and the *)
(* report sink eventually returns: an invocation that can take a step       *)
(* eventually takes one                                                     *)

SpecLive == Init /\ [][Next]_vars /\ WF_vars(Next)

-----------------------------------------------------------------------------
(* Claims about the merge engine, checked under SpecMerge *)

\* the location a finding reports: file, start line, end line (the start line
\* when the end line is missing)
Loc(f) == <<Get(f, "file_path", unknown), Get(f, "line_start", 0),
            Get(f, "line_end", Get(f, "line_start", 0))>>

\* the findings of the merge input, flattened and tagged
AllInputs == Flatten(findings_by_agent)

InputsAt(l) == SelectSeq(AllInputs, LAMBDA f : Loc(f) = l)

OutputsAt(l) == SelectSeq(merged_findings, LAMBDA f : Loc(f) = l)

\* how many input findings an output finding stands for
Contributors(o) == IF o["_merged"] THEN o["_finding_count"] ELSE 1

\* C1: the output of merge_overlapping_findings holds exactly one finding per
\* distinct (file_path, line_start, line_end) of the input: findings at the same
\* location are collapsed into that one finding, and findings whose locations
\* differ in any of the three, overlapping or not, are never collapsed.
C1_GroupingExactness ==
    phase = "merged" =>
        LET locs == {Loc(AllInputs[i]) : i \in 1..Len(AllInputs)}
        IN /\ Len(merged_findings) = Cardinality(locs)
           /\ \A l \in locs :
                /\ Len(OutputsAt(l)) = 1
                /\ Contributors(OutputsAt(l)[1]) = Len(InputsAt(l))
           /\ \A i \in 1..Len(merged_findings) : Loc(merged_findings[i]) \in locs

\* a merged state whose input holds two findings at one location, one of them
\* without line_end, and a third whose span overlaps theirs
C1_Witness ==
    /\ phase = "merged"
    /\ Len(merged_findings) = 2
    /\ \E i, j, k \in 1..Len(AllInputs) :
         /\ i # j
         /\ "line_end" \notin DOMAIN AllInputs[i]
         /\ "line_end" \in DOMAIN AllInputs[j]
         /\ Loc(AllInputs[i]) = Loc(AllInputs[j])
         /\ Loc(AllInputs[k]) # Loc(AllInputs[i])
         /\ findings_overlap(AllInputs[k], AllInputs[i])

\* C2: every finding the merge engine or the consensus adjuster emits has a
\* severity between 1 and 5.
C2_SeverityBound ==
    /\ \A i \in 1..Len(merged_findings) :
         "severity" \in DOMAIN merged_findings[i]
            /\ merged_findings[i].severity \in 1..5
    /\ \A i \in 1..Len(adjusted_findings) :
         "severity" \in DOMAIN adjusted_findings[i]
            /\ adjusted_findings[i].severity \in 1..5

\* the highest severity among the members of a group
MaxSeverity(group) ==
    CHOOSE m \in {group[i].severity : i \in 1..Len(group)} :
        \A i \in 1..Len(group) : group[i].severity <= m

\* C3: a location group of two or more findings yields one finding with
\* severity min(m + 1, 5) and original_severity m, m the highest severity of
\* the group; its id is derived from the first member of severity m, its
\* sources are the distinct contributing task kinds in sorted order, and it is
\* marked merged.
C3_MergeBoost ==
    phase = "merged" =>
        \A n \in 1..Len(AllInputs) :
            LET group == InputsAt(Loc(AllInputs[n]))
                outs == OutputsAt(Loc(AllInputs[n]))
                m == MaxSeverity(group)
                kinds == {group[i]["_source"] : i \in 1..Len(group)}
            IN Len(group) >= 2 =>
                 /\ Len(outs) = 1
                 /\ outs[1].severity = (IF m + 1 <= 5 THEN m + 1 ELSE 5)
                 /\ outs[1].original_severity = m
                 /\ \E i \in 1..Len(group) :
                       /\ group[i].severity = m
                       /\ \A j \in 1..(i - 1) : group[j].severity # m
                       /\ outs[1].id = <<"merged-">> \o group[i].id
                 /\ Range(outs[1]["_sources"]) = kinds
                 /\ Len(outs[1]["_sources"]) = Cardinality(kinds)
                 /\ (kinds = {"security", "performance"} =>
                        outs[1]["_sources"] = <<"performance", "security">>)
                 /\ outs[1]["_merged"] = TRUE

\* the example of the specification: severities 3 and 4 from two task kinds at
\* one location give severity 5 and original_severity 4; here the group also
\* holds a second finding of severity 4, so the base is the first of two equals
C3_Witness ==
    /\ phase = "merged"
    /\ \E o \in Range(merged_findings) :
         /\ o["_merged"]
         /\ o.severity = 5
         /\ o.original_severity = 4
         /\ o["_sources"] = <<"performance", "security">>
         /\ LET group == InputsAt(Loc(o))
            IN /\ Len(group) = 3
               /\ group[1].severity = 3
               /\ group[2].severity = 4
               /\ group[3].severity = 4
               /\ o.id = <<"merged-">> \o group[2].id

-----------------------------------------------------------------------------
(* Claims about the dispatcher and the orchestration, checked under Spec *)

\* run_all_agents has returned to invocation r and r has not moved on yet
JustReturned(r) == run[r].pc \in {"converging", "respond"}

\* the task of kind k in invocation r failed: its backend call raised, its
\* reply was not JSON, or the coroutine itself raised
TaskFailed(r, k) ==
    \/ task[r][k].pc = "failed"
    \/ /\ task[r][k].pc = "done"
       /\ task[r][k].response[1].kind \in {"backend_error", "malformed"}

IsErrorSummary(summary) == summary \in {"Error", "Error parsing response"}

\* C4: whatever the outcomes of the tasks, run_all_agents returns normally a
\* mapping keyed by exactly the dispatched kinds; a failed task maps to an
\* empty finding list with an error summary, and every other entry is what
\* that task itself produced from its own reply.
C4_TotalMapping ==
    \A r \in Runs :
        /\ run[r].exception # "task"
        /\ JustReturned(r) =>
              /\ run[r].agent_results # None
              /\ DOMAIN run[r].agent_results[1] = Kinds
              /\ \A k \in Kinds :
                    LET res == run[r].agent_results[1][k]
                    IN IF TaskFailed(r, k)
                       THEN /\ res.findings = <<>>
                            /\ IsErrorSummary(res.summary)
                       ELSE /\ task[r][k].pc = "done"
                            /\ res = [findings |-> NormalizeFindings(k,
                                          task[r][k].response[1].findings),
                                      summary |-> task[r][k].response[1].summary]

\* a task raised outside its try block while its sibling answered with a
\* finding, and run_all_agents has returned both
C4_Witness ==
    \E r \in Runs :
        /\ JustReturned(r)
        /\ task[r]["security"].pc = "failed"
        /\ task[r]["performance"].pc = "done"
        /\ run[r].agent_results[1]["security"].findings = <<>>
        /\ Len(run[r].agent_results[1]["performance"].findings) = 1

\* C5: when run_all_agents returns, every dispatched kind has a raw-findings
\* document whose findings equal those returned for the kind, and the kind
\* is in the session's completed set.
C5_DegradedPersisted ==
    \A r \in Runs :
        JustReturned(r) =>
            \A k \in Kinds :
                /\ DocsOf(agent_findings, k) # <<>>
                /\ DocsOf(agent_findings, k)[1].findings =
                      run[r].agent_results[1][k].findings
                /\ k \in Range(session.agents_completed)

\* C6: once the session's status is complete or error, no step changes it.
C6_TerminalAbsorbing ==
    [][session.status \in {"complete", "error"} =>
          session'.status = session.status]_vars

\* C7: an invocation of orchestrate_review that failed after it had loaded
\* the session leaves the session in status error with a message.
C7_FailureMarksError ==
    \A r \in Runs :
        (run[r].kind = "orchestrate" /\ run[r].pc = "raised" /\ run[r].loaded) =>
            /\ session.status = "error"
            /\ session.error # None

\* C8: final_review is present only if the status is complete.
C8_FinalReviewOnlyComplete ==
    session.final_review # None => session.status = "complete"

\* the coroutine of kind k in invocation r is still running
TaskRunning(r, k) == task[r][k].pc \in {"call", "upsert", "addtoset"}

\* C9: the write of status converging and the merge happen only after every
\* dispatched task has settled, the merge input holds a result for every
\* dispatched kind, and no task writes after the merge of its run has started.
C9_StageBarrier ==
    \A r \in Runs :
        /\ (run[r].pc = "converging" \/ MergeStarted(r)) =>
              \A k \in Kinds : ~TaskRunning(r, k) /\ ~task[r][k].late_write
        /\ run[r].pc \in {"converging", "post", "persist"} =>
              /\ \A k \in Kinds : Settled(r, k)
              /\ LET fba == FindingsByAgent(run[r].agent_results[1])
                 IN /\ Len(fba) = Len(AgentTypes)
                    /\ \A i \in 1..Len(fba) : fba[i].agent_type = AgentTypes[i]

\* the merge of an invocation has run over the results of a task that wrote
\* its document and of a task that raised
C9_Witness ==
    \E r \in Runs :
        /\ run[r].pc = "persist"
        /\ MergeStarted(r)
        /\ task[r]["security"].pc = "done"
        /\ task[r]["performance"].pc = "failed"
        /\ Len(run[r].merged_findings) = 1

\* C10: a run of orchestrate_review that reaches complete has executed
\* Dispatcher, Cross-Validation Round, Merge Engine, Consensus Adjuster and
\* Report Synthesizer, in this order.
C10_StageOrder ==
    \A r \in Runs :
        run[r].result = "complete" =>
            run[r].stages =
                <<"dispatcher", "cross_validation", "merge", "consensus", "report">>

-----------------------------------------------------------------------------
(* Claims about the consensus adjuster, checked under SpecConsensus *)

\* the judgments of cross_refs that name the id and carry the relationship
Judgments(id, relationship) ==
    {i \in 1..Len(cross_refs) :
        /\ cross_refs[i].target_finding_id = id
        /\ cross_refs[i].relationship = relationship}

HasConflict(f) == Judgments(f.id, "conflict") # {}

\* C11: a finding named by at least one conflict judgment keeps its severity,
\* however many reinforce and extend judgments name it.
C11_ConflictVeto ==
    phase = "adjusted" =>
        \A i \in 1..Len(merged_findings) :
            HasConflict(merged_findings[i]) =>
                /\ adjusted_findings[i].severity = merged_findings[i].severity
                /\ "consensus_adjusted" \notin DOMAIN adjusted_findings[i]

\* the example of the specification: three reinforce judgments and one
\* conflict judgment on a finding of severity 3, which stays at 3
C11_Witness ==
    /\ phase = "adjusted"
    /\ \E i \in 1..Len(merged_findings) :
         /\ merged_findings[i].severity = 3
         /\ Cardinality(Judgments(merged_findings[i].id, "reinforce")) = 3
         /\ Cardinality(Judgments(merged_findings[i].id, "conflict")) = 1
         /\ adjusted_findings[i].severity = 3

\* the severity the priority rules give to a finding without conflict
RuleSeverity(f) ==
    LET r == Cardinality(Judgments(f.id, "reinforce"))
        e == Cardinality(Judgments(f.id, "extend"))
        up(n) == IF f.severity + n <= 5 THEN f.severity + n ELSE 5
    IN CASE r >= 3 -> up(2)
         [] r = 2 -> up(1)
         [] r < 2 /\ e >= 2 -> up(1)
         [] OTHER -> f.severity

\* C12: a finding without conflict judgment gets min(severity + 2, 5) for
\* three or more reinforce judgments, else min(severity + 1, 5) for two, else
\* min(severity + 1, 5) for two or more extend judgments, else its severity.
C12_BoostRules ==
    phase = "adjusted" =>
        \A i \in 1..Len(merged_findings) :
            ~HasConflict(merged_findings[i]) =>
                adjusted_findings[i].severity = RuleSeverity(merged_findings[i])

\* severity 3 with exactly two reinforce judgments becomes 4 while a second
\* finding with two extend judgments goes from 2 to 3
C12_Witness ==
    /\ phase = "adjusted"
    /\ Len(merged_findings) = 2
    /\ \E i, j \in 1..2 :
         /\ merged_findings[i].severity = 3
         /\ Cardinality(Judgments(merged_findings[i].id, "reinforce")) = 2
         /\ adjusted_findings[i].severity = 4
         /\ merged_findings[j].severity = 2
         /\ Cardinality(Judgments(merged_findings[j].id, "extend")) = 2
         /\ adjusted_findings[j].severity = 3

\* the judgments that name a finding of the consensus input
Matched(refs) ==
    SelectSeq(refs, LAMBDA x :
        \E i \in 1..Len(merged_findings) : merged_findings[i].id = x.target_finding_id)

\* severity and consensus_adjusted flag of each finding of a list
Verdicts(findings) ==
    [i \in 1..Len(findings) |->
        <<findings[i].severity, "consensus_adjusted" \in DOMAIN findings[i]>>]

\* C13: a judgment that names no finding of the run is stored like any other,
\* and the severities and consensus_adjusted flags that
\* apply_consensus_to_findings returns are those it returns without such
\* judgments.
C13_UnmatchedInert ==
    /\ \A i \in 1..Len(cross_refs) :
          {"source_agent", "target_finding_id", "relationship"}
              \subseteq DOMAIN cross_refs[i]
    /\ phase = "adjusted" =>
          Verdicts(adjusted_findings) =
              Verdicts(apply_consensus_to_findings(merged_findings, Matched(cross_refs)))

\* three reinforce judgments that name no finding and one that names a
\* finding of severity 3, which stays at 3
C13_Witness ==
    /\ phase = "adjusted"
    /\ Len(cross_refs) = 4
    /\ Len(Matched(cross_refs)) = 1
    /\ \A i \in 1..4 : cross_refs[i].relationship = "reinforce"
    /\ \E i \in 1..Len(merged_findings) :
         /\ merged_findings[i].id = Matched(cross_refs)[1].target_finding_id
         /\ merged_findings[i].severity = 3
         /\ adjusted_findings[i].severity = 3
         /\ "consensus_adjusted" \notin DOMAIN adjusted_findings[i]

-----------------------------------------------------------------------------
(* Claims about the order of the merged list, checked under SpecOrder *)

\* the position at which the location was first met in the flattened input
FirstSeen(l) ==
    CHOOSE i \in 1..Len(AllInputs) :
        /\ Loc(AllInputs[i]) = l
        /\ \A j \in 1..(i - 1) : Loc(AllInputs[j]) # l

\* a comes before b by (severity descending, file_path ascending, line_start
\* ascending), then by the order in which their groups were first met
ComesBefore(a, b) ==
    \/ a.severity > b.severity
    \/ /\ a.severity = b.severity
       /\ StrLess(a.file_path, b.file_path)
    \/ /\ a.severity = b.severity
       /\ a.file_path = b.file_path
       /\ a.line_start < b.line_start
    \/ /\ a.severity = b.severity
       /\ a.file_path = b.file_path
       /\ a.line_start = b.line_start
       /\ FirstSeen(Loc(a)) < FirstSeen(Loc(b))

\* C14: the merged list is ordered by severity descending, then file_path
\* ascending, then line_start ascending, and findings with equal keys keep the
\* order in which their location groups were first met.
C14_SortedStable ==
    phase = "merged" =>
        \A i, j \in 1..Len(merged_findings) :
            i < j => ComesBefore(merged_findings[i], merged_findings[j])

\* the example of the specification, (2,b,1), (5,a,10), (5,a,2), returned as
\* a:2, a:10, b:1
C14_Witness ==
    /\ phase = "merged"
    /\ [i \in 1..Len(AllInputs) |->
           <<AllInputs[i].severity, AllInputs[i].file_path, AllInputs[i].line_start>>]
         = << <<2, <<"b">>, 1>>, <<5, <<"a">>, 10>>, <<5, <<"a">>, 2>> >>
    /\ [i \in 1..Len(merged_findings) |->
           <<merged_findings[i].file_path, merged_findings[i].line_start>>]
         = << <<<<"a">>, 2>>, <<<<"a">>, 10>>, <<<<"b">>, 1>> >>

-----------------------------------------------------------------------------
(* Claims about a whole run, checked under Spec *)

\* both analyzers of invocation r answered with their finding: severity 3
\* and severity 2 at the same file and line
BothOk(r) ==
    \A k \in Kinds :
        /\ task[r][k].pc = "done"
        /\ task[r][k].response[1].kind = "ok"

\* C16: a run in which the two analyzers report one finding each at the same
\* file and line, with severities 3 and 2, persists exactly one merged finding
\* of severity 4 whose sources are both kinds, findings_count 1,
\* critical_count 1, and a report whose summary shows Critical/High 1,
\* Medium 0, Low 0, Total 1.
C16_EndToEnd ==
    [][\A r \in Runs :
          (run[r].pc = "persist" /\ BothOk(r) /\ run'[r].result = "complete") =>
              /\ Len(run[r].merged_findings) = 1
              /\ run[r].merged_findings[1].severity = 4
              /\ Range(run[r].merged_findings[1]["_sources"]) = Kinds
              /\ session'.status = "complete"
              /\ session'.final_review # None
              /\ session'.final_review[1].findings_count = 1
              /\ session'.final_review[1].critical_count = 1
              /\ session'.final_review[1].summary.critical = 1
              /\ session'.final_review[1].summary.medium = 0
              /\ session'.final_review[1].summary.low = 0
              /\ session'.final_review[1].summary.total = 1]_vars

\* a completed run that has persisted the report of the one merged finding
C16_Witness ==
    /\ session.status = "complete"
    /\ session.final_review # None
    /\ session.final_review[1].findings_count = 1
    /\ session.final_review[1].critical_count = 1
    /\ session.final_review[1].summary.critical = 1
    /\ session.final_review[1].summary.total = 1
    /\ \E r \in Runs : run[r].result = "complete"

\* the findings of a rendered report, after the judgments of the run have
\* been applied to them
ReportFindings(report) == apply_consensus_to_findings(report.sections, cross_refs)

\* C17: whenever a report is handed to the report sink, by orchestrate_review
\* or by post_existing_review, the disposition is REQUEST_CHANGES if and only
\* if a finding of that report has severity >= 4, and COMMENT otherwise.
C17_Disposition ==
    \A r \in Runs :
        run[r].event # "none" =>
            LET fs == ReportFindings(run[r].report[1])
                high == \E i \in 1..Len(fs) : fs[i].severity >= 4
            IN /\ run[r].event \in {"REQUEST_CHANGES", "COMMENT"}
               /\ run[r].event = "REQUEST_CHANGES" <=> high

\* a first orchestrate_review has persisted, without posting it, a report
\* whose one finding has severity 4, and post_existing_review has handed that
\* report to the sink with REQUEST_CHANGES
C17_Witness ==
    \E r, q \in Runs :
        /\ run[q].kind = "orchestrate"
        /\ run[q].result = "complete"
        /\ run[r].kind = "post_existing"
        /\ run[r].pc = "update"
        /\ run[r].event = "REQUEST_CHANGES"
        /\ Len(run[r].report[1].sections) = 1
        /\ run[r].report[1].sections[1].severity = 4

\* C18: a failure of the report sink inside orchestrate_review does not stop
\* the run, which persists status complete and a final_review holding the
\* rendered report and the counts, without review identifier; a failure
\* inside post_existing_review reaches the caller and leaves the session's
\* final_review and status as they were.
C18_SinkFailure ==
    [][\A r \in Runs :
          /\ (run[r].kind = "orchestrate" /\ run[r].pc = "post"
                 /\ run'[r] # run[r]) =>
                /\ run'[r].pc = "persist"
                /\ run'[r].sink \in {"ok", "failed"}
                /\ run'[r].sink = "failed" => run'[r].github_review_id = None
                /\ run'[r].report = run[r].report
                /\ session' = session
          /\ (run[r].kind = "orchestrate" /\ run[r].sink = "failed"
                 /\ run'[r].result = "complete") =>
                /\ session'.status = "complete"
                /\ session'.final_review = Some(
                      [summary |-> run[r].report[1],
                       findings_count |-> Len(run[r].merged_findings),
                       critical_count |-> Cardinality(
                           {i \in 1..Len(run[r].merged_findings) :
                                run[r].merged_findings[i].severity >= 4}),
                       github_review_id |-> None])
          /\ (run[r].kind = "orchestrate" /\ run[r].sink = "failed") =>
                run'[r].exception # "sink"
          /\ (run[r].kind = "post_existing" /\ run[r].pc = "sink"
                 /\ run'[r].pc \notin {"sink", "update"}) =>
                /\ run'[r].pc = "raised"
                /\ run'[r].exception = "sink"
                /\ session' = session]_vars

\* the sink failed in orchestrate_review, the run completed without review
\* id, and a later post_existing_review failed at the sink as well
C18_Witness ==
    \E r, q \in Runs :
        /\ run[q].kind = "orchestrate"
        /\ run[q].result = "complete"
        /\ run[r].kind = "post_existing"
        /\ run[r].pc = "raised"
        /\ run[r].exception = "sink"
        /\ session.status = "complete"
        /\ session.final_review # None
        /\ session.final_review[1].github_review_id = None
        /\ session.final_review[1].findings_count = 1

-----------------------------------------------------------------------------
(* Claims about the writes of concurrent tasks, checked under Spec *)

\* the step is the upsert of the run_agent coroutine of kind k in invocation r
UpsertStep(r, k) == task[r][k].pc = "upsert" /\ task'[r][k].pc = "addtoset"

\* the step is a step of the run_agent coroutine of kind k in invocation r
TaskStep(r, k) ==
    /\ task[r][k].pc \in {"call", "upsert", "addtoset"}
    /\ task'[r][k] # task[r][k]

\* C19: the store holds at most one raw-findings document per task kind of
\* the session; it changes only by a task's write, after which the document
\* of the kind holds the written findings and the other documents are as
\* before; the same write once more leaves the store as it is.
C19_UpsertPerKind ==
    [][/\ \A k \in Kinds : Len(DocsOf(agent_findings', k)) <= 1
       /\ agent_findings' # agent_findings =>
             \E r \in Runs, k \in Kinds : UpsertStep(r, k)
       /\ \A r \in Runs, k \in Kinds :
             UpsertStep(r, k) =>
                LET doc == [agent_type |-> k,
                            findings |-> task[r][k].findings_data[1].findings,
                            summary |-> task[r][k].findings_data[1].summary]
                IN /\ DocsOf(agent_findings', k) = <<doc>>
                   /\ \A j \in Kinds \ {k} :
                         DocsOf(agent_findings', j) = DocsOf(agent_findings, j)
                   /\ UpdateOneUpsert(agent_findings', k, doc) = agent_findings']_vars

\* the tasks of one kind of two invocations have both written, with different
\* findings, and the store holds one document of that kind
C19_Witness ==
    \E k \in Kinds :
        /\ task[1][k].pc \in {"addtoset", "done"}
        /\ task[2][k].pc \in {"addtoset", "done"}
        /\ task[1][k].findings_data[1].findings # task[2][k].findings_data[1].findings
        /\ Len(DocsOf(agent_findings, k)) = 1
        /\ Len(agent_findings) = 2

NoDuplicates(array) == Cardinality(Range(array)) = Len(array)

-----------------------------------------------------------------------------
(* Claims about the cross-validation round, checked under SpecRound *)

\* C21: with fewer than two documents of raw findings for the session the
\* round is a no-op: once started it has returned, without any backend call,
\* without any stored judgment, with an empty list of judgments and the
\* "not enough" summary.
C21_NotEnoughNoOp ==
    (round.pc # "idle" /\ Len(agent_findings) < 2) =>
        /\ round.pc = "returned"
        /\ round.calls = 0
        /\ cross_refs = <<>>
        /\ round.cross_references = <<>>
        /\ round.summary = "Not enough agents for cross-reference"

C21_Witness ==
    /\ Len(agent_findings) = 1
    /\ agent_findings[1].findings # <<>>
    /\ round.pc = "returned"
    /\ round.summary = "Not enough agents for cross-reference"

\* C22: a failure while one kind's judgments are produced is skipped for that
\* kind only: the round never ends by raising, and when it has returned with
\* two or more documents every kind's backend call was attempted.
C22_FailureSkipped ==
    /\ round.pc # "raised"
    /\ (round.pc = "returned" /\ Len(agent_findings) >= 2) =>
           round.calls = Len(agent_findings)

-----------------------------------------------------------------------------
(* Claims about input failures, checked under Spec *)

\* C23: input failures short-circuit orchestrate_review.  On a session
\* without files an invocation never reaches the dispatcher, starts no task,
\* never calls the report sink, and when it has returned its result is
\* "skipped" and the session is complete with the "No reviewable files"
\* message.  On a missing session the invocation raises (not found, or the
\* store's own failure) and no document is written.
C23_InputFailureShortCircuits ==
    \A r \in Runs : run[r].kind = "orchestrate" =>
        /\ (session.exists /\ ~session.has_files) =>
              /\ run[r].pc \in {"skip_write", "returned", "raised"}
              /\ run[r].stages = <<>>
              /\ \A k \in Kinds : task[r][k] = NoTask
              /\ run[r].sink = "none"
              /\ agent_findings = <<>>
              /\ run[r].pc = "returned" =>
                    /\ run[r].result = "skipped"
                    /\ session.status = "complete"
                    /\ session.error = Some("No reviewable files")
        /\ ~session.exists =>
              /\ run[r].pc = "raised"
              /\ run[r].exception \in {"not_found", "store"}
              /\ ~run[r].loaded
              /\ session.status = "pending"
              /\ session.final_review = None
              /\ agent_findings = <<>>

C23_Witness ==
    /\ session.exists /\ ~session.has_files
    /\ run[1].kind = "orchestrate" /\ run[1].pc = "returned"
    /\ run[1].result = "skipped"
    /\ run[2].kind = "orchestrate" /\ run[2].pc = "skip_write"

-----------------------------------------------------------------------------
(* Claims about the normalisation of a task's reply, checked under SpecNormalize *)

\* C24: after the normalisation of one task's reply every finding has an id
\* and a line_end; a line_end that was absent equals the finding's
\* line_start; an id that was absent is the one derived from the task kind
\* and the position; everything else is as received; and the ids of the
\* findings of the task are pairwise distinct.
C24_NormalizedIds ==
    norm.pc = "done" =>
        /\ Len(norm.output) = Len(norm.input)
        /\ \A i \in 1..Len(norm.output) :
              LET f == norm.input[i]
                  g == norm.output[i]
              IN /\ {"id", "line_end"} \subseteq DOMAIN g
                 /\ "id" \in DOMAIN f => g.id = f.id
                 /\ "id" \notin DOMAIN f => g.id = DefaultId(norm.agent_type, i - 1)
                 /\ "line_end" \in DOMAIN f => g.line_end = f.line_end
                 /\ ("line_end" \notin DOMAIN f /\ "line_start" \in DOMAIN f) =>
                        g.line_end = f.line_start
                 /\ \A k \in DOMAIN f \ {"id", "line_end"} : g[k] = f[k]
        /\ \A i, j \in 1..Len(norm.output) :
              i # j => norm.output[i].id # norm.output[j].id

-----------------------------------------------------------------------------
(* Claims about the derived findings of the consensus adjuster, checked     *)
(* under SpecConsensus                                                       *)

\* C25: apply_consensus_to_findings returns one derived finding per input
\* finding, in the same order, and leaves the input findings as the merge
\* produced them; a derived finding differs from its input only in severity,
\* original_severity and consensus_adjusted; original_severity is the input's
\* severity before this adjustment (the boosted one for a merged finding),
\* and consensus_adjusted is present exactly when the new severity differs
\* from it.
C25_DerivedCopies ==
    phase = "adjusted" =>
        /\ merged_findings = merge_overlapping_findings(findings_by_agent)
        /\ Len(adjusted_findings) = Len(merged_findings)
        /\ \A i \in 1..Len(merged_findings) :
              LET f == merged_findings[i]
                  a == adjusted_findings[i]
              IN /\ DOMAIN f \subseteq DOMAIN a
                 /\ DOMAIN a \subseteq
                       DOMAIN f \cup {"original_severity", "consensus_adjusted"}
                 /\ \A k \in DOMAIN f \ {"severity", "original_severity"} :
                       a[k] = f[k]
                 /\ a.original_severity = f.severity
                 /\ "consensus_adjusted" \in DOMAIN a <=>
                       a.severity # f.severity
                 /\ "consensus_adjusted" \in DOMAIN a => a.consensus_adjusted

\* a merged finding boosted from 3 to 4 by the merge and from 4 to 5 by two
\* reinforcing judgments
C25_Witness ==
    /\ phase = "adjusted"
    /\ \E i \in 1..Len(merged_findings) :
          /\ merged_findings[i]._merged
          /\ merged_findings[i].original_severity = 3
          /\ merged_findings[i].severity = 4
          /\ adjusted_findings[i].original_severity = 4
          /\ adjusted_findings[i].severity = 5
          /\ "consensus_adjusted" \in DOMAIN adjusted_findings[i]

\* C26: consensus matching is by the finding's current id only.  The severity
\* of every derived finding is the one the rules give for the judgments whose
\* target equals that id: judgments that target the id of a raw finding
\* collapsed into a merged finding do not count toward the merged finding.
C26_CurrentIdOnly ==
    phase = "adjusted" =>
        \A i \in 1..Len(merged_findings) :
            LET f == merged_findings[i]
                a == adjusted_findings[i]
            IN /\ a.severity = IF HasConflict(f) THEN f.severity ELSE RuleSeverity(f)
               /\ (\A j \in 1..Len(cross_refs) :
                       cross_refs[j].target_finding_id # f.id) =>
                     /\ a.severity = f.severity
                     /\ "consensus_adjusted" \notin DOMAIN a

\* three reinforcing judgments on the raw id of a collapsed finding leave the
\* merged finding's severity as it was
C26_Witness ==
    /\ phase = "adjusted"
    /\ \E i \in 1..Len(merged_findings) :
          /\ merged_findings[i]._merged
          /\ merged_findings[i].severity < 5
          /\ Cardinality({j \in 1..Len(cross_refs) :
                /\ <<"merged-">> \o cross_refs[j].target_finding_id
                      = merged_findings[i].id
                /\ cross_refs[j].relationship = "reinforce"}) >= 3
          /\ adjusted_findings[i].severity = merged_findings[i].severity
          /\ "consensus_adjusted" \notin DOMAIN adjusted_findings[i]

-----------------------------------------------------------------------------
(* Claims about the progress of a run, checked under SpecLive *)

\* C27: when every call eventually returns, a session that is analyzing or
\* converging eventually reaches a terminal status, complete or error: no
\* session stays analyzing or converging forever.
C27_EventuallyTerminal ==
    (session.status \in {"analyzing", "converging"})
        ~> (session.status \in {"complete", "error"})

-----------------------------------------------------------------------------
(* Claims about concurrent requests on one session, checked under Spec *)

\* C28: at most one dispatch is in flight per session: no two invocations
\* are inside run_all_agents at once, and an invocation that is inside it
\* alone is the only one whose tasks are running.
C28_SingleDispatch ==
    \A r, q \in Runs :
        (r # q /\ run[r].pc = "gather") =>
            /\ run[q].pc # "gather"
            /\ \A k \in Kinds : task[q][k].pc \notin {"call", "upsert", "addtoset"}

-----------------------------------------------------------------------------
(* Claims about the creation of sessions, checked under SpecSessions *)

\* C29: the store holds at most one session per (repo_owner, repo_name,
\* pr_number, head_sha), whatever the deliveries and their interleaving, and
\* a delivery that has returned a session's id returned the id of a session
\* of its own tuple.
C29_OneSessionPerHead ==
    /\ \A i, j \in 1..Len(sessions) :
          sessions[i].github = sessions[j].github => i = j
    /\ \A d \in 1..Len(creator) :
          creator[d].pc = "returned" =>
              /\ creator[d].result \in 1..Len(sessions)
              /\ sessions[creator[d].result].github = creator[d].github

-----------------------------------------------------------------------------
(* Claims about posting a persisted report, checked under SpecPost *)

\* C30: for one persisted final_review the report is handed to the sink at
\* most once over all post_existing_review requests: at most one request has
\* had its report accepted by the sink, and none when the final_review
\* already carried a review identifier before the requests.
C30_PostedAtMostOnce ==
    Cardinality({r \in Runs :
        /\ run[r].kind = "post_existing"
        /\ \/ run[r].pc = "update"
           \/ run[r].result = "posted"}) <= 1

====
